---- MODULE Spec2Model ----
(***************************************************************************)
(* A model of stats_alloc_helper (src/src/lib.rs): LockedAllocator, the    *)
(* one-word lock `locked` that serializes every allocator call and gives   *)
(* one thread exclusive ownership while memory_measured runs a closure.    *)
(*                                                                         *)
(* Every atomic compare_exchange of the source is one step of the model;   *)
(* the statements between two of them that touch only thread-local data    *)
(* are folded into the step that follows.  The counters of the wrapped     *)
(* StatsAlloc are machine words (AtomicUsize / AtomicIsize, fetch_add      *)
(* wraps), scaled down to Word values.                                     *)
(***************************************************************************)
EXTENDS Naturals, Sequences, FiniteSets

\* ------------------------------------------------------------------ bounds

\* Top-level allocator calls (outside memory_measured) the threads make.
MaxCalls == 2
\* memory_measured calls the threads make from their top level.
MaxMeasures == 2
\* Longest scope_fn: the number of things a closure does.
MaxScopeOps == 2
\* The counters' word: usize arithmetic is modulo Word.
Word == 16

\* --------------------------------------------------------------- constants

STATE_UNLOCKED == 0
STATE_IN_USE == 1

\* The values current_thread_id() returns: distinct, and none a sentinel.
Threads == {2, 3, 4}
\* The threads of the program that measure; the others only call the allocator.
Measuring == {2, 3}

\* A thread for which current_thread_id() returns the value of STATE_IN_USE,
\* where thread identifiers are small numbers; the specifications that say
\* nothing else have no such thread.
Collider == STATE_IN_USE
AllThreads == Threads \cup {Collider}

current_thread_id(t) == t

\* ------------------------------------------------------- StatsAlloc / Stats

\* An allocator primitive as the GlobalAlloc impl receives it: the layout's
\* size and, for realloc, the new size.
Alloc(n) == [kind |-> "alloc", size |-> n, new_size |-> n]
Dealloc(n) == [kind |-> "dealloc", size |-> n, new_size |-> n]
Realloc(n, m) == [kind |-> "realloc", size |-> n, new_size |-> m]

\* The primitives the threads call: every kind, growing and shrinking.
Ops == {Alloc(2), Dealloc(2), Realloc(2, 3), Realloc(3, 1)}
\* The primitives of a thread's top level, and of the closures it measures.
TopOps == {Dealloc(2)}
ScopeOps == {Alloc(2)}

NoOp == [kind |-> "none", size |-> 0, new_size |-> 0]

ZeroStats ==
  [allocations |-> 0, deallocations |-> 0, reallocations |-> 0,
   bytes_allocated |-> 0, bytes_deallocated |-> 0, bytes_reallocated |-> 0]

\* fetch_add on a counter word.
Add(x, d) == (x + d) % Word

\* Wrapping subtraction of two counter words.
Minus(x, y) == (x + Word - (y % Word)) % Word

\* self.inner.alloc / dealloc / realloc: StatsAlloc counts the call, then
\* hands it to the system allocator.
inner_op(s, o) ==
  CASE o.kind = "alloc" ->
         [s EXCEPT !.allocations = Add(@, 1),
                   !.bytes_allocated = Add(@, o.size)]
    [] o.kind = "dealloc" ->
         [s EXCEPT !.deallocations = Add(@, 1),
                   !.bytes_deallocated = Add(@, o.size)]
    [] o.kind = "realloc" ->
         [s EXCEPT !.reallocations = Add(@, 1),
                   !.bytes_allocated =
                      IF o.new_size > o.size THEN Add(@, o.new_size - o.size) ELSE @,
                   !.bytes_deallocated =
                      IF o.new_size < o.size THEN Add(@, o.size - o.new_size) ELSE @,
                   !.bytes_reallocated = Add(@, Minus(o.new_size, o.size))]
    [] OTHER -> s

\* What the primitive returns when the system allocator serves it: a
\* pointer from alloc and realloc, nothing from dealloc.
inner_result(o) == IF o.kind \in {"alloc", "realloc"} THEN "ptr" ELSE "none"

\* The subtraction with its operands exchanged: before - after.
StatsSub_swapped(a, b) ==
  [allocations |-> Minus(b.allocations, a.allocations),
   deallocations |-> Minus(b.deallocations, a.deallocations),
   reallocations |-> Minus(b.reallocations, a.reallocations),
   bytes_allocated |-> Minus(b.bytes_allocated, a.bytes_allocated),
   bytes_deallocated |-> Minus(b.bytes_deallocated, a.bytes_deallocated),
   bytes_reallocated |-> Minus(b.bytes_reallocated, a.bytes_reallocated)]

\* after - before, counter by counter.
StatsSub(a, b) ==
  [allocations |-> Minus(a.allocations, b.allocations),
   deallocations |-> Minus(a.deallocations, b.deallocations),
   reallocations |-> Minus(a.reallocations, b.reallocations),
   bytes_allocated |-> Minus(a.bytes_allocated, b.bytes_allocated),
   bytes_deallocated |-> Minus(a.bytes_deallocated, b.bytes_deallocated),
   bytes_reallocated |-> Minus(a.bytes_reallocated, b.bytes_reallocated)]

\* ------------------------------------------------------------------- state

VARIABLES
  locked,     \* LockedAllocator.locked, the lock word
  stats,      \* the counters of LockedAllocator.inner
  pc,         \* where each thread is
  op,         \* the allocator primitive a thread is calling
  is_locked,  \* what before_op returned to serialized
  spun,       \* the sleeps of the loop a thread is in: 0 for none, else 1 or 2,
              \* which every further sleep exchanges
  body,       \* the closure a thread's memory_measured runs
  ip,         \* the next item of body
  before,     \* the `before` snapshots of a thread's memory_measured frames
  after,      \* the `after` snapshot
  owns,       \* lock() calls of a thread that succeeded and are not unlocked
  calls,      \* top-level calls the threads have made: <<allocator, measured>>
  panicked,   \* a panic has unwound the thread's memory_measured or unlock
  deltas,     \* the Stats each completed memory_measured returned
  scopes,     \* the closure of each completed memory_measured
  existing,   \* what the compare_exchange of a thread's last unlock() read
  result,     \* serialized's `result`: what op(locked) returned
  ret         \* what the thread's last allocator call returned to the code
              \* that made it, while that code runs

vars == <<locked, stats, pc, op, is_locked, spun, body, ip, before, after,
          owns, calls, panicked, deltas, scopes, existing, result, ret>>

\* What a closure does, one item after the other: an allocator primitive, a
\* nested memory_measured(alloc, || {}), a panic, or a wait for something
\* that does not come (a loop without end, a join of a thread that is held
\* up).
Nested == [kind |-> "measure", size |-> 0, new_size |-> 0]
Panic == [kind |-> "panic", size |-> 0, new_size |-> 0]
Wait == [kind |-> "wait", size |-> 0, new_size |-> 0]
\* What a measured future does as well: an await that suspends it.
Yield == [kind |-> "yield", size |-> 0, new_size |-> 0]

Items == Ops \cup {Nested, Panic, Wait, Yield}

SeqsUpTo(S, n) == UNION {[1..k -> S] : k \in 0..n}

Init ==
  /\ locked = STATE_UNLOCKED
  /\ stats = ZeroStats
  /\ pc = [t \in AllThreads |-> "idle"]
  /\ op = [t \in AllThreads |-> NoOp]
  /\ is_locked = [t \in AllThreads |-> FALSE]
  /\ spun = [t \in AllThreads |-> 0]
  /\ body = [t \in AllThreads |-> <<>>]
  /\ ip = [t \in AllThreads |-> 1]
  /\ before = [t \in AllThreads |-> <<>>]
  /\ after = [t \in AllThreads |-> ZeroStats]
  /\ owns = [t \in AllThreads |-> 0]
  /\ calls = <<0, 0>>
  /\ panicked = [t \in AllThreads |-> FALSE]
  /\ deltas = [t \in AllThreads |-> <<>>]
  /\ scopes = [t \in AllThreads |-> <<>>]
  /\ existing = [t \in AllThreads |-> STATE_UNLOCKED]
  /\ result = [t \in AllThreads |-> "none"]
  /\ ret = [t \in AllThreads |-> "none"]

\* sleep(SLEEP) in a loop that has slept x times, or an odd or even number
\* of times.
sleep(x) == IF x = 1 THEN 2 ELSE 1

\* Where a call made by thread t returns to: the closure of the innermost
\* memory_measured frame, or the thread's top level.
Caller(t) == IF before[t] # <<>> THEN "scope" ELSE "idle"

\* -------------------------------------------------- the allocator's lock

\* before_op with the comparison of `existing` to the thread's identifier
\* left out: any failed compare_exchange counts as the owner's.
before_op_cas_any_owner(word, tid) ==
  IF word = STATE_UNLOCKED THEN "taken" ELSE "owner"

\* before_op that leaves its loop after the first compare_exchange, failed or
\* not.
before_op_cas_no_retry(word, tid) ==
  IF word = tid THEN "owner" ELSE "taken"

\* before_op without the comparison of `existing` to the thread's identifier
\* at all: the owner waits for STATE_UNLOCKED like everyone else.
before_op_cas_owner_sleeps(word, tid) ==
  IF word = STATE_UNLOCKED THEN "taken" ELSE "sleep"

\* before_op that does not take a sentinel for its thread's identifier.
before_op_cas_not_sentinel(word, tid) ==
  IF word = STATE_UNLOCKED THEN "taken"
  ELSE IF word = tid /\ tid \notin {STATE_UNLOCKED, STATE_IN_USE} THEN "owner"
  ELSE "sleep"

\* before_op's compare_exchange(STATE_UNLOCKED, STATE_IN_USE) and what the
\* loop does with its result: "taken" (Ok: the word is now STATE_IN_USE, the
\* loop breaks, before_op returns false), "owner" (Err(existing) with
\* existing == current_thread_id: return true) or "sleep" (retry).
before_op_cas(word, tid) ==
  IF word = STATE_UNLOCKED THEN "taken"
  ELSE IF word = tid THEN "owner"
  ELSE "sleep"

\* after_op that stores STATE_UNLOCKED instead of exchanging it for
\* STATE_IN_USE.
after_op_cas_store(word, tid) == "released"

\* after_op that is skipped when the operation returned null: the release
\* depends on the allocation's success.
after_op_cas_unless_null(word, tid) ==
  IF result[tid] = "null" THEN "owner"
  ELSE IF word = STATE_IN_USE THEN "released"
  ELSE IF word = tid THEN "owner"
  ELSE "sleep"

\* after_op without the comparison of `existing` to the thread's identifier:
\* it waits for STATE_IN_USE whoever owns the word.
after_op_cas_no_owner(word, tid) ==
  IF word = STATE_IN_USE THEN "released" ELSE "sleep"

\* after_op's compare_exchange(STATE_IN_USE, STATE_UNLOCKED): "released"
\* (Ok), "owner" (Err(existing), existing == current_thread_id: break) or
\* "sleep".
after_op_cas(word, tid) ==
  IF word = STATE_IN_USE THEN "released"
  ELSE IF word = tid THEN "owner"
  ELSE "sleep"

\* lock that takes the word from a thread in an allocator call as well.
lock_cas_in_use(word, tid) == word \in {STATE_UNLOCKED, STATE_IN_USE}

\* lock that stores its identifier whatever the word holds.
lock_cas_store(word, tid) == TRUE

\* lock that gives up on an owner and takes the word over.
lock_cas_steal(word, tid) == word # STATE_IN_USE

\* lock's compare_exchange(STATE_UNLOCKED, current_thread_id) is Ok.
lock_cas(word, tid) == word = STATE_UNLOCKED

\* unlock that releases the word of whichever thread owns it.
unlock_cas_any_owner(word, tid) == word \notin {STATE_UNLOCKED, STATE_IN_USE}

\* unlock that stores STATE_UNLOCKED whatever the word holds.
unlock_cas_store(word, tid) == TRUE

\* unlock's compare_exchange(expected, STATE_UNLOCKED) is Ok; on Err the
\* unwrap() panics.
unlock_cas(word, tid) == word = tid

\* One more top-level call of kind i (1: allocator primitive, 2: memory_measured).
Count(c, i) == [c EXCEPT ![i] = @ + 1]

\* A thread calls alloc, dealloc or realloc of the global allocator from its
\* top level: serialized(op) starts.
call_alloc(t, ops, counted) ==
  /\ pc[t] = "idle"
  /\ counted => calls[1] < MaxCalls
  /\ \E o \in ops : op' = [op EXCEPT ![t] = o]
  /\ calls' = IF counted THEN Count(calls, 1) ELSE calls
  /\ pc' = [pc EXCEPT ![t] = "before_op"]
  /\ spun' = [spun EXCEPT ![t] = 0]
  /\ UNCHANGED <<locked, stats, is_locked, body, ip, before, after, owns,
                 panicked, deltas, scopes, existing, result, ret>>

\* The closure's next item is an allocator primitive.
scope_alloc(t) ==
  /\ pc[t] = "scope"
  /\ Len(before[t]) = 1
  /\ ip[t] <= Len(body[t])
  /\ body[t][ip[t]] \in Ops
  /\ op' = [op EXCEPT ![t] = body[t][ip[t]]]
  /\ ip' = [ip EXCEPT ![t] = @ + 1]
  /\ pc' = [pc EXCEPT ![t] = "before_op"]
  /\ spun' = [spun EXCEPT ![t] = 0]
  /\ UNCHANGED <<locked, stats, is_locked, body, before, after, owns, calls,
                 panicked, deltas, scopes, existing, result, ret>>

\* One iteration of before_op's loop.
before_op(t) ==
  /\ pc[t] = "before_op"
  /\ LET r == before_op_cas(locked, current_thread_id(t)) IN
       /\ locked' = IF r = "taken" THEN STATE_IN_USE ELSE locked
       /\ is_locked' = IF r = "sleep" THEN is_locked
                       ELSE [is_locked EXCEPT ![t] = (r = "owner")]
       /\ pc' = IF r = "sleep" THEN pc ELSE [pc EXCEPT ![t] = "op"]
       /\ spun' = IF r = "sleep" THEN [spun EXCEPT ![t] = sleep(@)] ELSE spun
  /\ UNCHANGED <<stats, op, body, ip, before, after, owns, calls, panicked,
                 deltas, scopes, existing, result, ret>>

\* op(locked): the probe fires for the owner, then the inner allocator runs.
serialized_op(t) ==
  /\ pc[t] = "op"
  /\ stats' = inner_op(stats, op[t])
  /\ pc' = [pc EXCEPT ![t] = "after_op"]
  /\ spun' = [spun EXCEPT ![t] = 0]
  /\ result' = [result EXCEPT ![t] = inner_result(op[t])]
  /\ UNCHANGED <<locked, op, is_locked, body, ip, before, after, owns, calls,
                 panicked, deltas, scopes, existing, ret>>

\* op(locked) when the system allocator has no memory for the call:
\* StatsAlloc has counted the call before it hands it on, and the null
\* pointer comes back.
serialized_op_null(t) ==
  /\ pc[t] = "op"
  /\ op[t].kind \in {"alloc", "realloc"}
  /\ stats' = inner_op(stats, op[t])
  /\ pc' = [pc EXCEPT ![t] = "after_op"]
  /\ spun' = [spun EXCEPT ![t] = 0]
  /\ result' = [result EXCEPT ![t] = "null"]
  /\ UNCHANGED <<locked, op, is_locked, body, ip, before, after, owns, calls,
                 panicked, deltas, scopes, existing, ret>>

\* One iteration of after_op's loop; serialized returns when it breaks.
after_op(t) ==
  /\ pc[t] = "after_op"
  /\ LET r == after_op_cas(locked, current_thread_id(t)) IN
       /\ locked' = IF r = "released" THEN STATE_UNLOCKED ELSE locked
       /\ pc' = IF r = "sleep" THEN pc ELSE [pc EXCEPT ![t] = Caller(t)]
       /\ op' = IF r = "sleep" THEN op ELSE [op EXCEPT ![t] = NoOp]
       /\ is_locked' = IF r = "sleep" THEN is_locked
                       ELSE [is_locked EXCEPT ![t] = FALSE]
       /\ spun' = IF r = "sleep" THEN [spun EXCEPT ![t] = sleep(@)]
                  ELSE [spun EXCEPT ![t] = 0]
       /\ ret' = IF r = "sleep" THEN ret ELSE [ret EXCEPT ![t] = result[t]]
       /\ result' = IF r = "sleep" THEN result
                    ELSE [result EXCEPT ![t] = "none"]
  /\ UNCHANGED <<stats, body, ip, before, after, owns, calls, panicked,
                 deltas, scopes, existing>>

\* ------------------------------------------------------- memory_measured

\* A thread calls memory_measured(alloc, f) from its top level, at most
\* `limit` times; it has kept the Stats of its earlier calls, or dropped them.
call_measured(t, bodies, limit, keep) ==
  /\ pc[t] = "idle"
  /\ calls[2] < limit
  /\ \E f \in bodies : body' = [body EXCEPT ![t] = f]
  /\ ip' = [ip EXCEPT ![t] = 1]
  /\ calls' = Count(calls, 2)
  /\ pc' = [pc EXCEPT ![t] = "lock"]
  /\ spun' = [spun EXCEPT ![t] = 0]
  /\ deltas' = IF keep THEN deltas ELSE [deltas EXCEPT ![t] = <<>>]
  /\ scopes' = IF keep THEN scopes ELSE [scopes EXCEPT ![t] = <<>>]
  /\ UNCHANGED <<locked, stats, op, is_locked, before, after, owns, panicked,
                 existing, result, ret>>

\* The closure's next item is memory_measured(alloc, || {}).
scope_measured(t) ==
  /\ pc[t] = "scope"
  /\ Len(before[t]) = 1
  /\ ip[t] <= Len(body[t])
  /\ body[t][ip[t]] = Nested
  /\ ip' = [ip EXCEPT ![t] = @ + 1]
  /\ pc' = [pc EXCEPT ![t] = "lock"]
  /\ spun' = [spun EXCEPT ![t] = 0]
  /\ UNCHANGED <<locked, stats, op, is_locked, body, before, after, owns,
                 calls, panicked, deltas, scopes, existing, result, ret>>

\* One iteration of lock's loop; `next` is where lock's caller goes on.
lock(t, next) ==
  /\ pc[t] = "lock"
  /\ IF lock_cas(locked, current_thread_id(t))
       THEN /\ locked' = current_thread_id(t)
            /\ owns' = [owns EXCEPT ![t] = @ + 1]
            /\ pc' = [pc EXCEPT ![t] = next]
            /\ spun' = [spun EXCEPT ![t] = 0]
       ELSE /\ spun' = [spun EXCEPT ![t] = sleep(@)]
            /\ UNCHANGED <<locked, owns, pc>>
  /\ UNCHANGED <<stats, op, is_locked, body, ip, before, after, calls,
                 panicked, deltas, scopes, existing, result, ret>>

\* let before = alloc.stats(); then f() starts.
snapshot_before(t) ==
  /\ pc[t] = "snap_before"
  /\ before' = [before EXCEPT ![t] = Append(@, stats)]
  /\ pc' = [pc EXCEPT ![t] = "scope"]
  /\ UNCHANGED <<locked, stats, op, is_locked, spun, body, ip, after, owns,
                 calls, panicked, deltas, scopes, existing, result, ret>>

\* The closure panics: the panic unwinds memory_measured, which holds no
\* guard, so nothing runs on the way out, and is caught by the thread's top
\* level.
scope_panic(t) ==
  /\ pc[t] = "scope"
  /\ Len(before[t]) = 1
  /\ ip[t] <= Len(body[t])
  /\ body[t][ip[t]] = Panic
  /\ before' = [before EXCEPT ![t] = <<>>]
  /\ body' = [body EXCEPT ![t] = <<>>]
  /\ ip' = [ip EXCEPT ![t] = 1]
  /\ panicked' = [panicked EXCEPT ![t] = TRUE]
  /\ pc' = [pc EXCEPT ![t] = "idle"]
  /\ ret' = [ret EXCEPT ![t] = "none"]
  /\ UNCHANGED <<locked, stats, op, is_locked, spun, after, owns, calls,
                 deltas, scopes, existing, result>>

\* A runtime with worker threads: a task that was suspended is polled again
\* by whichever worker is free.
block_on_any_worker(t, workers) == workers \cup {t}

\* The threads that may poll the measured future after a suspension: the
\* runtime is a current_thread one, driven by runtime.block_on on the thread
\* that built it, so that thread and no other.
block_on(t, workers) == {t}

\* f.await suspends: block_on parks the thread until the future is woken and
\* polls it again; the thread that polls goes on with the async block, its
\* `before` and what the future holds.
scope_yield(t) ==
  /\ pc[t] = "scope"
  /\ Len(before[t]) = 1
  /\ ip[t] <= Len(body[t])
  /\ body[t][ip[t]] = Yield
  /\ \E w \in block_on(t, {u \in Threads : pc[u] = "idle"}) :
       IF w = t
         THEN /\ ip' = [ip EXCEPT ![t] = @ + 1]
              /\ UNCHANGED <<pc, body, before, ret>>
         ELSE /\ pc' = [pc EXCEPT ![t] = "idle", ![w] = "scope"]
              /\ body' = [body EXCEPT ![t] = <<>>, ![w] = body[t]]
              /\ ip' = [ip EXCEPT ![t] = 1, ![w] = ip[t] + 1]
              /\ before' = [before EXCEPT ![t] = <<>>, ![w] = before[t]]
              /\ ret' = [ret EXCEPT ![t] = "none", ![w] = ret[t]]
  /\ UNCHANGED <<locked, stats, op, is_locked, spun, after, owns, calls,
                 panicked, deltas, scopes, existing, result>>

\* The closure waits: it sleeps and looks again, and does not return.
scope_wait(t) ==
  /\ pc[t] = "scope"
  /\ Len(before[t]) = 1
  /\ ip[t] <= Len(body[t])
  /\ body[t][ip[t]] = Wait
  /\ spun' = [spun EXCEPT ![t] = sleep(@)]
  /\ UNCHANGED <<locked, stats, pc, op, is_locked, body, ip, before, after,
                 owns, calls, panicked, deltas, scopes, existing, result, ret>>

\* f() returns (the closure of a nested call is empty); let after =
\* alloc.stats().
snapshot_after(t) ==
  /\ pc[t] = "scope"
  /\ Len(before[t]) > 1 \/ ip[t] > Len(body[t])
  /\ after' = [after EXCEPT ![t] = stats]
  /\ pc' = [pc EXCEPT ![t] = "unlock"]
  /\ UNCHANGED <<locked, stats, op, is_locked, spun, body, ip, before, owns,
                 calls, panicked, deltas, scopes, existing, result, ret>>

\* alloc.unlock(): the compare_exchange, and the panic of unwrap() on Err.
\* `next` is where unlock's caller goes on.
unlock(t, next) ==
  /\ pc[t] = "unlock"
  /\ IF unlock_cas(locked, current_thread_id(t))
       THEN /\ locked' = STATE_UNLOCKED
            /\ owns' = [owns EXCEPT ![t] = @ - 1]
            /\ pc' = [pc EXCEPT ![t] = next]
            /\ UNCHANGED <<panicked, before, body, ip, after>>
       ELSE /\ panicked' = [panicked EXCEPT ![t] = TRUE]
            /\ before' = [before EXCEPT ![t] = <<>>]
            /\ body' = [body EXCEPT ![t] = <<>>]
            /\ ip' = [ip EXCEPT ![t] = 1]
            /\ after' = [after EXCEPT ![t] = ZeroStats]
            /\ pc' = [pc EXCEPT ![t] = "idle"]
            /\ UNCHANGED <<locked, owns>>
  /\ existing' = [existing EXCEPT ![t] = locked]
  /\ UNCHANGED <<stats, op, is_locked, spun, calls, deltas, scopes, result, ret>>

\* A thread calls lock() itself, as a test inside the crate can.
call_lock(t) ==
  /\ pc[t] = "idle"
  /\ calls[2] < MaxMeasures
  /\ calls' = Count(calls, 2)
  /\ pc' = [pc EXCEPT ![t] = "lock"]
  /\ spun' = [spun EXCEPT ![t] = 0]
  /\ UNCHANGED <<locked, stats, op, is_locked, body, ip, before, after, owns,
                 panicked, deltas, scopes, existing, result, ret>>

\* A thread calls unlock() itself and watches whether the call panics.
call_unlock(t) ==
  /\ pc[t] = "idle"
  /\ panicked' = [panicked EXCEPT ![t] = FALSE]
  /\ pc' = [pc EXCEPT ![t] = "unlock"]
  /\ UNCHANGED <<locked, stats, op, is_locked, spun, body, ip, before, after,
                 owns, calls, deltas, scopes, existing, result, ret>>

\* after - before is returned to the caller of memory_measured; the closure
\* and what it held are gone.
measured_return(t) ==
  /\ pc[t] = "return"
  /\ LET n == Len(before[t]) IN
       /\ deltas' = [deltas EXCEPT ![t] = Append(@, StatsSub(after[t], before[t][n]))]
       /\ scopes' = [scopes EXCEPT ![t] = Append(@, IF n = 1 THEN body[t] ELSE <<>>)]
       /\ before' = [before EXCEPT ![t] = SubSeq(@, 1, n - 1)]
       /\ pc' = [pc EXCEPT ![t] = IF n > 1 THEN "scope" ELSE "idle"]
       /\ body' = IF n > 1 THEN body ELSE [body EXCEPT ![t] = <<>>]
       /\ ip' = IF n > 1 THEN ip ELSE [ip EXCEPT ![t] = 1]
  /\ after' = [after EXCEPT ![t] = ZeroStats]
  /\ ret' = [ret EXCEPT ![t] = "none"]
  /\ UNCHANGED <<locked, stats, op, is_locked, spun, owns, calls, panicked,
                 existing, result>>

\* ---------------------------------------------------------- specifications

\* serialized(op): before_op, the operation, after_op.
serialized(t) == before_op(t) \/ serialized_op(t) \/ after_op(t)

\* memory_measured(alloc, f) of a closure that calls the allocator.
memory_measured(t) ==
  \/ lock(t, "snap_before")
  \/ snapshot_before(t)
  \/ scope_alloc(t)
  \/ snapshot_after(t)
  \/ unlock(t, "return")
  \/ measured_return(t)

\* The closures that only call the allocator, with primitives of `ops`.
OpBodies(ops) == SeqsUpTo(ops, MaxScopeOps)

\* The closures the threads measure: allocator calls, and possibly a nested
\* memory_measured or a panic at the end.
Bodies ==
  OpBodies(ScopeOps) \cup
  {Append(f, x) : f \in SeqsUpTo(ScopeOps, MaxScopeOps - 1), x \in {Nested, Panic}}

\* What a thread of the program does next.
Step(t) ==
  \/ call_alloc(t, TopOps, TRUE)
  \/ call_measured(t, Bodies, MaxMeasures, FALSE)
  \/ serialized(t)
  \/ memory_measured(t)
  \/ scope_measured(t)
  \/ scope_panic(t)

\* What a thread that measures nothing does next.
StepOther(t) == call_alloc(t, TopOps, TRUE) \/ serialized(t)

\* The program: threads that call the allocator and memory_measured, and
\* threads that only call the allocator.
Next ==
  \/ \E t \in Measuring : Step(t)
  \/ \E t \in Threads \ Measuring : StepOther(t)

Spec == Init /\ [][Next]_vars

\* The lock's operations called directly, in any order, by any thread.
StepApi(t) ==
  \/ call_alloc(t, TopOps, TRUE)
  \/ serialized(t)
  \/ call_lock(t)
  \/ lock(t, "idle")
  \/ call_unlock(t)
  \/ unlock(t, "idle")

NextApi == \E t \in Threads : StepApi(t)

SpecApi == Init /\ [][NextApi]_vars

\* The closure of the next memory_measured of thread t, which measures a
\* sequence of allocator calls up to a point, then the rest of it, then the
\* whole of it.
AddBodies(t) ==
  CASE Len(scopes[t]) = 0 -> OpBodies(Ops)
    [] Len(scopes[t]) = 1 ->
         {f \in OpBodies(Ops) : Len(scopes[t][1]) + Len(f) <= MaxScopeOps}
    [] OTHER -> {scopes[t][1] \o scopes[t][2]}

\* One thread measures and keeps what it measured; another calls the
\* allocator.
Measurer == CHOOSE t \in Measuring : \A u \in Measuring : t <= u

NextAdd ==
  \/ call_measured(Measurer, AddBodies(Measurer), 3, TRUE)
  \/ memory_measured(Measurer)
  \/ \E t \in Measuring \ {Measurer} : call_alloc(t, Ops, TRUE)
  \/ \E t \in Measuring : serialized(t)

SpecAdd == Init /\ [][NextAdd]_vars

\* Scenario C: each measuring thread calls memory_measured once, with a
\* closure that calls the allocator and returns.
PairBodies(t) == IF scopes[t] = <<>> THEN OpBodies(ScopeOps) ELSE {}

StepPair(t) ==
  \/ call_measured(t, PairBodies(t), Cardinality(Measuring), TRUE)
  \/ serialized(t)
  \/ memory_measured(t)

NextPair == \E t \in Measuring : StepPair(t)

SpecPair ==
  Init /\ [][NextPair]_vars /\ \A t \in Measuring : WF_vars(StepPair(t))

\* Threads that call the allocator again and again, and measure closures
\* that call the allocator and return.
StepLive(t) ==
  \/ call_alloc(t, TopOps, FALSE)
  \/ call_measured(t, OpBodies(ScopeOps), MaxMeasures, FALSE)
  \/ serialized(t)
  \/ memory_measured(t)

NextLive == \E t \in Measuring : StepLive(t)

SpecLive ==
  Init /\ [][NextLive]_vars /\ \A t \in Measuring : WF_vars(StepLive(t))

\* The primitives that return a pointer, which is null when the system
\* allocator fails.
FailOps == {Alloc(2), Realloc(2, 3)}

\* Threads whose allocator calls may fail: one measures closures, the others
\* call the allocator from their top level.
StepFail(t) ==
  \/ t # Measurer /\ call_alloc(t, FailOps, TRUE)
  \/ t = Measurer /\ call_measured(t, OpBodies(ScopeOps), MaxMeasures, FALSE)
  \/ serialized(t)
  \/ serialized_op_null(t)
  \/ memory_measured(t)

NextFail == \E t \in Measuring : StepFail(t)

SpecFail ==
  Init /\ [][NextFail]_vars /\ \A t \in Measuring : WF_vars(StepFail(t))

\* The closures that call the allocator and then return, or then wait
\* without end.
HangBodies ==
  OpBodies(ScopeOps) \cup
  {Append(f, Wait) : f \in SeqsUpTo(ScopeOps, MaxScopeOps - 1)}

\* Threads that measure closures which may not return, and call the
\* allocator.
StepHang(t) ==
  \/ call_alloc(t, TopOps, TRUE)
  \/ call_measured(t, HangBodies, MaxMeasures, FALSE)
  \/ serialized(t)
  \/ memory_measured(t)
  \/ scope_wait(t)

NextHang ==
  \/ \E t \in Measuring : StepHang(t)
  \/ \E t \in Threads \ Measuring : StepOther(t)

SpecHang == Init /\ [][NextHang]_vars

\* Threads that call the allocator and measure closures that return, and a
\* thread with the identifier 1 that calls the allocator.
StepCollide(t) ==
  \/ call_alloc(t, TopOps, TRUE)
  \/ call_measured(t, OpBodies(ScopeOps), MaxMeasures, FALSE)
  \/ serialized(t)
  \/ memory_measured(t)

NextCollide ==
  \/ \E t \in Measuring : StepCollide(t)
  \/ StepOther(Collider)

SpecCollide == Init /\ [][NextCollide]_vars

\* The futures the threads measure: allocator calls and suspensions.
AsyncBodies == SeqsUpTo(ScopeOps \cup {Yield}, MaxScopeOps)

\* memory_measured_future(alloc, f): spawn_blocking starts the closure on a
\* thread of the blocking pool, which runs the async block (lock, the
\* snapshots around f.await, unlock) under block_on.
memory_measured_future(t) ==
  \/ call_measured(t, AsyncBodies, MaxMeasures, FALSE)
  \/ memory_measured(t)
  \/ scope_yield(t)

\* The threads of the blocking pool, which call the allocator as well.
StepAsync(t) ==
  \/ call_alloc(t, TopOps, TRUE)
  \/ serialized(t)
  \/ memory_measured_future(t)

NextAsync == \E t \in Measuring : StepAsync(t)

SpecAsync == Init /\ [][NextAsync]_vars

\* Every thread that can take a step eventually takes one.
FairSpec ==
  /\ Spec
  /\ \A t \in Measuring : WF_vars(Step(t))
  /\ \A t \in Threads \ Measuring : WF_vars(StepOther(t))

\* ------------------------------------------------------ what is measured

\* The number of items of closure f that are calls of primitive k.
Number(f, k) == Cardinality({i \in 1..Len(f) : f[i].kind = k})

\* The bytes the items of f request (kind "alloc"), give back ("dealloc"),
\* grow by ("grow") or shrink by ("shrink").
RECURSIVE Bytes(_, _)
Bytes(f, k) ==
  IF f = <<>> THEN 0
  ELSE LET o == Head(f)
           b == CASE k = "alloc" /\ o.kind = "alloc" -> o.size
                  [] k = "dealloc" /\ o.kind = "dealloc" -> o.size
                  [] k = "grow" /\ o.kind = "realloc" /\ o.new_size > o.size ->
                       o.new_size - o.size
                  [] k = "shrink" /\ o.kind = "realloc" /\ o.new_size < o.size ->
                       o.size - o.new_size
                  [] OTHER -> 0
       IN b + Bytes(Tail(f), k)

\* The Delta of the allocator calls of closure f, counted from f alone.
ExpectedDelta(f) ==
  [allocations |-> Number(f, "alloc") % Word,
   deallocations |-> Number(f, "dealloc") % Word,
   reallocations |-> Number(f, "realloc") % Word,
   bytes_allocated |-> (Bytes(f, "alloc") + Bytes(f, "grow")) % Word,
   bytes_deallocated |-> (Bytes(f, "dealloc") + Bytes(f, "shrink")) % Word,
   bytes_reallocated |-> Minus(Bytes(f, "grow"), Bytes(f, "shrink"))]

\* Thread t is between the two snapshots of its memory_measured.
InWindow(t) ==
  /\ Len(before[t]) = 1
  /\ pc[t] \in {"scope", "before_op", "op", "after_op", "lock"}

\* The items of its closure that thread t has carried out.
Performed(t) ==
  SubSeq(body[t], 1, IF pc[t] \in {"before_op", "op"} THEN ip[t] - 2 ELSE ip[t] - 1)

\* Thread t is inside an inner-allocator primitive.
InInner(t) == pc[t] = "op"

\* -------------------------------------------------------------- the claims

\* C1: cross-thread exclusion.  While a thread is between the two snapshots
\* of its memory_measured, the counters have moved from its `before` snapshot
\* by exactly the allocator calls its own closure has carried out so far, and
\* the two snapshots it ends with differ by exactly the calls of its closure:
\* no call of another thread is counted, however the other threads' calls
\* are interleaved.
C1_CrossThreadExclusion ==
  \A t \in Threads :
    /\ InWindow(t) => StatsSub(stats, before[t][1]) = ExpectedDelta(Performed(t))
    /\ pc[t] \in {"unlock", "return"} /\ Len(before[t]) = 1 =>
         StatsSub(after[t], before[t][1]) = ExpectedDelta(body[t])

\* C1's case: a thread has taken both snapshots around a closure of two
\* allocator calls while the other thread, in an allocator call of its own,
\* has been spinning in before_op.
C1_Witness ==
  \E t, u \in Threads :
    /\ t # u
    /\ pc[t] = "unlock" /\ Len(body[t]) = 2 /\ after[t] # before[t][1]
    /\ pc[u] = "before_op" /\ spun[u] > 0

\* C2: mutual exclusion of raw allocation.  At most one thread is inside an
\* inner-allocator primitive.
C2_MutualExclusion == Cardinality({t \in Threads : InInner(t)}) <= 1

\* C2's case: one thread is inside the inner allocator on the TransientBusy
\* path while another one has tried to enter and sleeps.
C2_Witness ==
  \E t, u \in Threads :
    /\ t # u /\ InInner(t) /\ locked = STATE_IN_USE
    /\ pc[u] = "before_op" /\ spun[u] > 0

\* C3: exclusive ownership.  At most one thread is between a successful
\* lock() and its unlock(), the lock word names it, and while the lock word
\* is OwnedBy(t) no other thread is past before_op or gets past it.
C3_OwnerInv ==
  /\ Cardinality({t \in Threads : owns[t] > 0}) <= 1
  /\ \A t \in Threads : (owns[t] > 0) <=> (locked = current_thread_id(t))
  /\ \A t, u \in Threads :
       locked = current_thread_id(t) /\ u # t => pc[u] \notin {"op", "after_op"}

C3_NoPass ==
  \A t, u \in Threads :
    locked = current_thread_id(t) /\ u # t /\ pc[u] = "before_op" =>
      pc'[u] = "before_op"

C3_ExclusiveOwnership == []C3_OwnerInv /\ [][C3_NoPass]_vars

\* C3's case: a thread owns the lock while the other one, which wants to
\* measure too, sleeps in lock(), or, in an allocator call, in before_op.
C3_Witness ==
  \E t, u \in Threads :
    /\ t # u /\ locked = current_thread_id(t) /\ pc[t] = "scope"
    /\ pc[u] \in {"lock", "before_op"} /\ spun[u] > 0

\* C4: reentrancy of measure.  A memory_measured called from the closure of
\* an enclosing memory_measured of the same thread gets through its lock()
\* and the thread completes both measurements.
C4_NestedMeasureCompletes ==
  \A t \in Threads :
    (pc[t] = "lock" /\ Len(before[t]) = 1) ~>
      (pc[t] = "idle" /\ before[t] = <<>> /\ ~panicked[t])

\* C5: release on every exit path.  The lock word is never OwnedBy(t) while t
\* is outside memory_measured, whatever way it left it.
C5_ReleasedOnEveryExit ==
  \A t \in Threads : pc[t] = "idle" => locked # current_thread_id(t)

\* C6: fail-fast release.  An unlock() of thread t succeeds exactly when the
\* lock word is OwnedBy(t), and then leaves it Free; in every other state it
\* panics and leaves the lock word as it was.
C6_UnlockStep ==
  \A t \in Threads :
    pc[t] = "unlock" /\ pc'[t] # "unlock" =>
      IF locked = current_thread_id(t)
        THEN locked' = STATE_UNLOCKED /\ ~panicked'[t]
        ELSE locked' = locked /\ panicked'[t]

C6_FailFastRelease == [][C6_UnlockStep]_vars

\* C6's case: an unlock() of one thread has panicked on a lock word owned by
\* another thread, which still owns it.
C6_Witness ==
  \E t, u \in Threads :
    /\ t # u /\ pc[t] = "idle" /\ panicked[t]
    /\ existing[t] = current_thread_id(u) /\ locked = current_thread_id(u)

\* C7: Delta correctness.  Every Stats that memory_measured returned holds,
\* counter by counter, the numbers and bytes of the allocator calls of the
\* closure it measured, and six zeros for a closure that calls nothing.
C7_DeltaCorrect ==
  \A t \in Threads :
    \A i \in 1..Len(deltas[t]) :
      /\ deltas[t][i] = ExpectedDelta(scopes[t][i])
      /\ scopes[t][i] = <<>> => deltas[t][i] = ZeroStats

\* C7's case: memory_measured has returned the Delta of a closure of two
\* allocator calls, and the other thread's calls have moved the counters too.
C7_Witness ==
  /\ pc[Measurer] = "idle"
  /\ Len(deltas[Measurer]) = 1
  /\ Len(scopes[Measurer][1]) = 2
  /\ stats # deltas[Measurer][1]

\* The sum of two Deltas, counter by counter.
StatsAdd(a, b) ==
  [allocations |-> Add(a.allocations, b.allocations),
   deallocations |-> Add(a.deallocations, b.deallocations),
   reallocations |-> Add(a.reallocations, b.reallocations),
   bytes_allocated |-> Add(a.bytes_allocated, b.bytes_allocated),
   bytes_deallocated |-> Add(a.bytes_deallocated, b.bytes_deallocated),
   bytes_reallocated |-> Add(a.bytes_reallocated, b.bytes_reallocated)]

\* C8: additivity.  When a thread has measured a sequence of allocator calls
\* up to a point, then the rest of it, then the whole of it, the Deltas of the
\* first two scopes add up to the Delta of the third, whatever the other
\* thread's allocator calls did in between.
C8_Additivity ==
  \A t \in Threads :
    Len(deltas[t]) = 3 /\ scopes[t][3] = scopes[t][1] \o scopes[t][2] =>
      StatsAdd(deltas[t][1], deltas[t][2]) = deltas[t][3]

\* C8's case: the three scopes are measured, neither part is empty, and the
\* counters hold more than the three scopes: the other thread's calls.
C8_Witness ==
  /\ Len(deltas[Measurer]) = 3
  /\ scopes[Measurer][1] # <<>> /\ scopes[Measurer][2] # <<>>
  /\ scopes[Measurer][3] = scopes[Measurer][1] \o scopes[Measurer][2]
  /\ stats # StatsAdd(deltas[Measurer][3], deltas[Measurer][3])

\* C9: scenario C.  When two threads each call memory_measured once, with
\* closures that return, both calls eventually return, the two threads never
\* own the lock at the same time, and each Delta returned is the Delta of the
\* allocator calls of the thread's own closure.
C9_BothReturned ==
  \A t \in Measuring : pc[t] = "idle" /\ Len(deltas[t]) = 1

C9_Apart ==
  /\ Cardinality({t \in Threads : owns[t] > 0}) <= 1
  /\ \A t, u \in Threads :
       owns[t] > 0 /\ u # t => pc[u] \notin {"snap_before", "scope", "unlock"}
  /\ \A t \in Threads :
       \A i \in 1..Len(deltas[t]) : deltas[t][i] = ExpectedDelta(scopes[t][i])

C9_ScenarioC == <>C9_BothReturned /\ []C9_Apart

\* C9's case: the windows overlap: one thread has taken its snapshots and
\* released the lock while the other one, whose call started meanwhile, has
\* been sleeping in lock().
C9_Witness ==
  \E t, u \in Measuring :
    /\ t # u /\ pc[t] = "return" /\ body[t] # <<>>
    /\ pc[u] = "lock" /\ spun[u] > 0 /\ body[u] # <<>>

\* C10: no operation blocks indefinitely.  Every thread that is in lock()
\* eventually owns the lock, and every thread that is in before_op
\* eventually reaches the inner allocator, whatever the other threads go on
\* doing.
C10_NoStarvation ==
  \A t \in Measuring :
    /\ (pc[t] = "lock") ~> (pc[t] = "snap_before")
    /\ (pc[t] = "before_op") ~> (pc[t] = "op")

\* C11: the owner's reentrant path.  While the lock word is OwnedBy(t), an
\* allocator call of t gets through before_op on the first compare_exchange,
\* with `true` for serialized's closure, and through after_op on the first
\* compare_exchange; neither they nor the inner operation change the lock
\* word, which is never TransientBusy and never Free during the call.
C11_OwnerInv ==
  \A t \in Threads :
    locked = current_thread_id(t) =>
      /\ pc[t] \in {"before_op", "after_op"} => spun[t] = 0
      /\ pc[t] \in {"op", "after_op"} => is_locked[t]

C11_OwnerStep ==
  \A t \in Threads :
    locked = current_thread_id(t) /\ pc[t] \in {"before_op", "op", "after_op"} =>
      /\ locked' = locked
      /\ pc[t] = "before_op" /\ (pc'[t] # pc[t] \/ spun'[t] # spun[t]) =>
           pc'[t] = "op" /\ is_locked'[t] /\ spun'[t] = 0
      /\ pc[t] = "after_op" /\ (pc'[t] # pc[t] \/ spun'[t] # spun[t]) =>
           pc'[t] = Caller(t) /\ spun'[t] = 0

C11_OwnerReentrantPath == []C11_OwnerInv /\ [][C11_OwnerStep]_vars

\* C11's case: the owner's closure has made two allocator calls, which moved
\* the counters, and is back in the closure with the lock word still its own,
\* while another thread sleeps in before_op.
C11_Witness ==
  \E t, u \in Threads :
    /\ t # u /\ locked = current_thread_id(t)
    /\ pc[t] = "scope" /\ Len(before[t]) = 1 /\ ip[t] = 3
    /\ stats # before[t][1]
    /\ pc[u] = "before_op" /\ spun[u] > 0

\* C12: the lock-word invariant.  The lock word is always Free, TransientBusy
\* or the identifier of a thread whose lock() succeeded and whose unlock() has
\* not; it changes only from Free to TransientBusy (a before_op), from
\* TransientBusy to Free (an after_op), from Free to OwnedBy(t) by t's lock()
\* and from OwnedBy(t) to Free by t's unlock(); no other thread's step changes
\* a word that is OwnedBy(t).
C12_WordInv ==
  \/ locked \in {STATE_UNLOCKED, STATE_IN_USE}
  \/ \E t \in Threads : locked = current_thread_id(t) /\ owns[t] > 0

C12_WordStep ==
  locked' # locked =>
    \/ /\ locked = STATE_UNLOCKED /\ locked' = STATE_IN_USE
       /\ \E t \in Threads : pc[t] = "before_op" /\ pc'[t] = "op"
    \/ /\ locked = STATE_IN_USE /\ locked' = STATE_UNLOCKED
       /\ \E t \in Threads : pc[t] = "after_op" /\ pc'[t] # "after_op"
    \/ \E t \in Threads :
         /\ locked = STATE_UNLOCKED /\ locked' = current_thread_id(t)
         /\ pc[t] = "lock" /\ pc'[t] # "lock"
    \/ \E t \in Threads :
         /\ locked = current_thread_id(t) /\ locked' = STATE_UNLOCKED
         /\ pc[t] = "unlock" /\ pc'[t] # "unlock"

C12_LockWordInvariant == []C12_WordInv /\ [][C12_WordStep]_vars

\* C12's case: the word has gone through all four transitions: a thread is in
\* the inner allocator on TransientBusy after an earlier allocator call and a
\* lock() that was unlocked again, and an unlock() of a thread that did not
\* own the word has panicked on a word another thread owned.
C12_Witness ==
  \E t, u \in Threads :
    /\ t # u /\ locked = STATE_IN_USE /\ pc[t] = "op"
    /\ calls = <<MaxCalls, MaxMeasures>>
    /\ \A v \in Threads : owns[v] = 0
    /\ panicked[u] /\ existing[u] \in Threads

\* C13: a failure of the inner allocator does not leak the lock.  Whatever
\* the inner primitive returned, null included, serialized returns it to the
\* caller as it is and leaves the lock word as the call found it: Free for a
\* caller that does not own the lock, OwnedBy(t) for the owner; and a
\* memory_measured whose closure had a call fail still returns with the lock
\* released.
C13_InFlight ==
  \A t \in Threads :
    pc[t] = "after_op" /\ result[t] = "null" =>
      locked = (IF owns[t] > 0 THEN current_thread_id(t) ELSE STATE_IN_USE)

C13_ReturnStep ==
  \A t \in Threads :
    pc[t] = "after_op" /\ pc'[t] # "after_op" =>
      /\ ret'[t] = result[t]
      /\ locked' = (IF owns[t] > 0 THEN current_thread_id(t) ELSE STATE_UNLOCKED)

C13_FailureKeepsLock ==
  /\ []C13_InFlight
  /\ [][C13_ReturnStep]_vars
  /\ \A t \in Measuring :
       (pc[t] = "scope" /\ Len(before[t]) = 1 /\ ret[t] = "null") ~>
         (pc[t] = "idle" /\ ~panicked[t] /\ locked # current_thread_id(t))

\* C13's case: a thread's top-level call has returned null, and the other
\* thread, the last call of whose closure returned null too, has released
\* the lock and is about to return from memory_measured: the word is Free.
C13_Witness ==
  \E t, u \in Measuring :
    /\ t # u /\ pc[t] = "idle" /\ ret[t] = "null"
    /\ pc[u] = "return" /\ ret[u] = "null" /\ owns[u] = 0
    /\ locked = STATE_UNLOCKED

\* Thread t owns the lock and its closure waits without end.
Hung(t) ==
  /\ pc[t] = "scope" /\ Len(before[t]) = 1 /\ ip[t] <= Len(body[t])
  /\ body[t][ip[t]] = Wait

\* C14: a hung owner wedges everyone.  When the owner's closure does not
\* return, the lock word stays OwnedBy(t) for ever; no other thread is in the
\* inner allocator or between a lock() and its unlock(), and every other
\* thread that is in before_op or in lock(), then or later, stays there at
\* every step it takes: nothing times out and nothing takes the lock from the
\* owner.
C14_Wedged(t) ==
  /\ locked = current_thread_id(t)
  /\ \A u \in Threads \ {t} : pc[u] \in {"idle", "return", "before_op", "lock"}

C14_SpinStep ==
  \A t \in Threads :
    Hung(t) =>
      /\ Hung(t)' /\ locked' = locked
      /\ \A u \in Threads \ {t} :
           pc[u] \in {"before_op", "lock"} => pc'[u] = pc[u]

C14_HungOwnerWedges ==
  /\ [](\A t \in Threads : Hung(t) => C14_Wedged(t))
  /\ [][C14_SpinStep]_vars

\* C14's case: the owner's closure waits, a second thread has been sleeping
\* in lock() and a third one in before_op.
C14_Witness ==
  \E t, u, v \in Threads :
    /\ Hung(t) /\ spun[t] > 0
    /\ pc[u] = "lock" /\ spun[u] > 0
    /\ pc[v] = "before_op" /\ spun[v] > 0

\* C15: sentinel collision.  A thread whose identifier is the value of
\* STATE_IN_USE, in before_op while another thread holds TransientBusy, reads
\* the word as its own: before_op returns true at the first compare_exchange
\* and the thread goes into the inner allocator, the word unchanged.
C15_ColliderStep ==
  \A c \in AllThreads :
    /\ current_thread_id(c) = STATE_IN_USE
    /\ pc[c] = "before_op" /\ locked = STATE_IN_USE
    /\ pc'[c] # pc[c] \/ spun'[c] # spun[c]
    => pc'[c] = "op" /\ is_locked'[c] /\ locked' = locked

C15_SentinelCollision == [][C15_ColliderStep]_vars

\* C15's case: two threads are inside the inner allocator at the same time,
\* one that set TransientBusy and the colliding one that took it for its own
\* ownership.
C15_Witness ==
  \E c, u \in AllThreads :
    /\ c # u /\ current_thread_id(c) = STATE_IN_USE
    /\ InInner(c) /\ is_locked[c]
    /\ InInner(u) /\ ~is_locked[u]
    /\ locked = STATE_IN_USE

\* Thread t runs the async block of memory_measured_future between lock()
\* and unlock().
InBlock(t) ==
  \/ pc[t] \in {"snap_before", "unlock"}
  \/ Len(before[t]) = 1 /\ pc[t] \in {"scope", "before_op", "op", "after_op"}

\* C16: the async adapter.  The thread that runs any part of the async block
\* between lock() and unlock(), before or after a suspension of the measured
\* future, is the thread whose lock() succeeded and the lock word is its
\* identifier all along; so every unlock() of the adapter succeeds, and none
\* panics.
C16_OneThread ==
  \A t \in Threads :
    /\ InBlock(t) => locked = current_thread_id(t) /\ owns[t] = 1
    /\ ~panicked[t]

C16_UnlockStep ==
  \A t \in Threads :
    pc[t] = "unlock" /\ pc'[t] # "unlock" =>
      pc'[t] = "return" /\ locked' = STATE_UNLOCKED

C16_AsyncAdapter == []C16_OneThread /\ [][C16_UnlockStep]_vars

\* C16's case: a future that suspended, then called the allocator, has been
\* measured, and the adapter's unlock() has succeeded; the other thread of
\* the pool, free when the future was woken, has since called the allocator
\* and slept in before_op.
C16_Witness ==
  \E t, u \in Measuring :
    /\ t # u
    /\ pc[t] = "return" /\ body[t] = <<Yield, Alloc(2)>>
    /\ after[t] # before[t][1]
    /\ pc[u] = "before_op" /\ spun[u] > 0 /\ calls[1] = 1

\* C17: ownership is not granted while an allocation is in flight.  At the
\* step at which a lock() succeeds, and at the steps that read the `before`
\* and the `after` snapshot, no other thread is inside an inner-allocator
\* primitive; and between the two snapshots of a thread the counters change
\* only at that thread's own inner-allocator calls.
C17_GrantStep ==
  \A t \in Threads :
    /\ \/ pc[t] = "lock" /\ pc'[t] # "lock"
       \/ pc[t] = "snap_before" /\ pc'[t] # "snap_before"
       \/ pc[t] = "scope" /\ pc'[t] = "unlock"
       => \A u \in Threads \ {t} : ~InInner(u)
    /\ InWindow(t) /\ stats' # stats => InInner(t) /\ pc'[t] = "after_op"

C17_NoGrantInFlight == [][C17_GrantStep]_vars

\* C17's case: a thread has taken both snapshots around a closure that
\* called the allocator; the first one holds a top-level call that was
\* complete when lock() succeeded, and another thread's allocator call sleeps
\* in before_op.
C17_Witness ==
  \E t, u \in Threads :
    /\ t # u /\ pc[t] = "unlock" /\ Len(before[t]) = 1
    /\ before[t][1].deallocations > 0
    /\ after[t] # before[t][1]
    /\ pc[u] = "before_op" /\ spun[u] > 0

\* Thread t is in an allocator call whose before_op set TransientBusy.
Holder(t) == pc[t] \in {"op", "after_op"} /\ ~is_locked[t]

\* C18: after_op never spins.  A thread in after_op has not slept there, and
\* finds the lock word TransientBusy, which its own before_op set, or
\* OwnedBy(itself); TransientBusy is the marker of exactly one thread, and
\* the step that clears it is that thread's after_op.
C18_AfterOpInv ==
  /\ \A t \in Threads :
       pc[t] = "after_op" =>
         /\ spun[t] = 0
         /\ locked = (IF is_locked[t] THEN current_thread_id(t) ELSE STATE_IN_USE)
  /\ Cardinality({t \in Threads : Holder(t)}) = (IF locked = STATE_IN_USE THEN 1 ELSE 0)

C18_ClearStep ==
  /\ locked = STATE_IN_USE /\ locked' # locked =>
       \E t \in Threads : Holder(t) /\ pc[t] = "after_op" /\ pc'[t] = Caller(t)
  /\ \A t \in Threads :
       pc[t] = "after_op" /\ (pc'[t] # pc[t] \/ spun'[t] # spun[t]) =>
         pc'[t] = Caller(t)

C18_AfterOpNeverSpins == []C18_AfterOpInv /\ [][C18_ClearStep]_vars

\* C18's case: the owner is in after_op after its own allocator call, an
\* earlier call on TransientBusy is complete, and another thread sleeps in
\* lock().
C18_Witness ==
  \E t, u \in Threads :
    /\ t # u /\ pc[t] = "after_op" /\ is_locked[t]
    /\ locked = current_thread_id(t)
    /\ stats.deallocations = 2
    /\ pc[u] = "lock" /\ spun[u] > 0

====
